---- MODULE Spec2Model ----
(***************************************************************************)
(* The string hash table of src/src/stdfn.c (htab_create, htab_destroy,    *)
(* htab_hash and the prime test isprime): open addressing with double      *)
(* hashing, modified from glibc 2.3.2.                                     *)
(*                                                                         *)
(* One htab_table object is modelled.  A call is one atomic step (the      *)
(* table is single-threaded by contract).  The arguments of a call (NULL   *)
(* or not) are its inputs; calloc and malloc return a block or NULL.       *)
(*                                                                         *)
(* uint32_t values are Integers; a negative Integer v stands for the       *)
(* wrapped value 2^32 + v.  The main hash is computed on two 16-bit limbs  *)
(* so that it wraps at 2^32 as the C expression does.  The prime search    *)
(* runs on Integers for requested sizes of at most MaxReq, where nothing   *)
(* wraps, and on limbs for the requested sizes of WideReq.                 *)
(***************************************************************************)
EXTENDS Integers, Sequences, FiniteSets, TLC

VARIABLES
    table,   \* htab->table: the slot array 0..size, or NullTable
    size,    \* htab->size
    filled,  \* htab->filled
    pc,      \* "run", or "fault" once an out-of-bounds access has trapped
    nOom,    \* failed key duplications since the slot array was allocated
    last,    \* the last call: its arguments, its result, filled at entry
    pair,    \* the call before it, when it was htab_hash with the same arguments
    handle   \* per key, the last non-zero index htab_hash returned for it on this slot array

vars == <<table, size, filled, pc, nOom, last, pair, handle>>

(* ------------------------------ bounds --------------------------------- *)

\* largest size requested from htab_create in Spec
MaxNel == 2
\* largest size requested from htab_create in SpecCreate
MaxReq == 60
\* most key duplications (malloc in htab_hash) that fail on one slot array
MaxOom == 1

(* ------------------------------ strings -------------------------------- *)

\* a char* that is NULL; no C string holds the character 0
NULL == <<0>>

\* the keys passed to htab_hash, as sequences of character codes:
\* "", "a", "b", "c", "d" and "ba"
Keys == { <<>>, <<97>>, <<98>>, <<99>>, <<100>>, <<98, 97>> }

(* --------------------------- 32-bit arithmetic ------------------------- *)

W16 == 65536

\* a uint32_t as <<high 16 bits, low 16 bits>>
Limbs(hi, lo) == <<hi % W16, lo % W16>>

Add32(a, b) == Limbs(a[1] + b[1] + ((a[2] + b[2]) \div W16), a[2] + b[2])

Sub32(a, b) ==
    LET lo == a[2] - b[2]
        borrow == IF lo < 0 THEN 1 ELSE 0
    IN  Limbs(a[1] - b[1] - borrow + W16, lo + W16)

\* a << k for k in 0..16
Shl32(a, k) ==
    LET m == 2 ^ k
        keep == W16 \div m
    IN  Limbs((a[1] % keep) * m + (a[2] \div keep), (a[2] % keep) * m)

\* a % n for a uint32_t a in limbs and a small n
Mod32(a, n) == ((a[1] % n) * (W16 % n) + (a[2] % n)) % n

\* the limbs of a uint32_t held as an Integer
ToLimbs(v) ==
    IF v < 0
    THEN Sub32(Limbs(0, 0), Limbs((0 - v) \div W16, (0 - v) % W16))
    ELSE Limbs(v \div W16, v % W16)

\* the Integer that holds the uint32_t a: negative from 2^31 on
FromLimbs(a) == IF a[1] >= 32768 THEN (a[1] - W16) * W16 + a[2] ELSE a[1] * W16 + a[2]

\* a < b of two uint32_t
Less32(a, b) == (a[1] < b[1]) \/ ((a[1] = b[1]) /\ (a[2] < b[2]))

\* x * y of two 16-bit values, which fits 32 bits
Mul16(x, y) == Add32(Shl32(ToLimbs(x * (y \div 256)), 8), ToLimbs(x * (y % 256)))

\* a * b of two uint32_t, wrapped at 2^32
Mul32(a, b) ==
    Add32(Mul16(a[2], b[2]), Shl32(Add32(Mul16(a[1], b[2]), Mul16(a[2], b[1])), 16))

\* a % n of a uint32_t a and an Integer n of 1..2^23, taken 8 bits at a time
Rem32Small(a, n) ==
    LET r1 == a[1] % n
        r2 == (r1 * 256 + (a[2] \div 256)) % n
    IN  (r2 * 256 + (a[2] % 256)) % n

\* q * d of a q below 512 and a uint32_t d, when it fits 32 bits
MulSmall(q, d) == Limbs(q * d[1] + ((q * d[2]) \div W16), q * d[2])

\* a / d of two uint32_t, d of 2^23 or more: the quotient is below 512
Quot32(a, d) ==
    CHOOSE q \in (a[1] \div (d[1] + 1))..(a[1] \div d[1]) :
        /\ q * d[1] + ((q * d[2]) \div W16) < W16
        /\ ~Less32(a, MulSmall(q, d))
        /\ Less32(Sub32(a, MulSmall(q, d)), d)

\* a % d of two uint32_t, d not 0
Rem32(a, d) ==
    IF d[1] < 128
    THEN ToLimbs(Rem32Small(a, FromLimbs(d)))
    ELSE Sub32(a, MulSmall(Quot32(a, d), d))

(* ------------------------------ isprime -------------------------------- *)

RECURSIVE isprimeLoop(_, _)
\* the while loop of isprime: the divider it stops at
isprimeLoop(divider, number) ==
    IF (divider * divider < number) /\ (number % divider # 0)
    THEN isprimeLoop(divider + 2, number)
    ELSE divider

isprime(number) == number % isprimeLoop(3, number) # 0

RECURSIVE FirstPrime(_)
\* while(!isprime(nel)) nel += 2;
FirstPrime(nel) == IF isprime(nel) THEN nel ELSE FirstPrime(nel + 2)

\* nel |= 1
OrOne(nel) == IF nel % 2 = 0 THEN nel + 1 ELSE nel

RECURSIVE isprimeLoop32(_, _)
\* the while loop of isprime in uint32_t: divider * divider and divider += 2
\* wrap at 2^32
isprimeLoop32(divider, number) ==
    IF Less32(Mul32(divider, divider), number) /\ (Rem32(number, divider) # Limbs(0, 0))
    THEN isprimeLoop32(Add32(divider, Limbs(0, 2)), number)
    ELSE divider

isprime32(number) == Rem32(number, isprimeLoop32(Limbs(0, 3), number)) # Limbs(0, 0)

RECURSIVE FirstPrime32(_)
\* while(!isprime(nel)) nel += 2; in uint32_t: nel += 2 wraps at 2^32
FirstPrime32(nel) == IF isprime32(nel) THEN nel ELSE FirstPrime32(Add32(nel, Limbs(0, 2)))

\* nel |= 1 in limbs
OrOne32(nel) == Limbs(nel[1], IF nel[2] % 2 = 0 THEN nel[2] + 1 ELSE nel[2])

\* the two largest requested sizes, 2^32 - 2 and 2^32 - 1, as wrapped values
WideReq == (0 - 2)..(0 - 1)

\* the capacity htab_create chooses for every requested size of WideReq
WideSize == [nel \in WideReq |-> FromLimbs(FirstPrime32(OrOne32(ToLimbs(nel))))]

\* the capacity htab_create chooses for the requested size nel
NewSize(nel) == IF nel \in WideReq THEN WideSize[nel] ELSE FirstPrime(OrOne(nel))

(* ------------------------------ hashing -------------------------------- *)

RECURSIVE sdbm(_, _)
\* while ((c = *sz++) != 0) r = c + (r << 6) + (r << 16) - r;
sdbm(str, r) ==
    IF str = <<>> THEN r
    ELSE sdbm(Tail(str),
              Sub32(Add32(Add32(Limbs(0, Head(str)), Shl32(r, 6)), Shl32(r, 16)), r))

\* the main hash value r, with if (r == 0) ++r
MainHash(str) ==
    LET r == sdbm(str, Limbs(0, 0))
    IN  IF r = Limbs(0, 0) THEN Limbs(0, 1) ELSE r

\* the main hash value of every string passed to htab_hash
MainHashOf == [str \in Keys \cup {NULL} |-> MainHash(str)]

\* hval = r % htab->size; if (hval == 0) ++hval;
TableHash(str, sz) ==
    LET hval == Mod32(MainHashOf[str], sz)
    IN  IF hval = 0 THEN 1 ELSE hval

\* size - 2 in uint32_t: it wraps below 2, and hval % (2^32 - 1) is hval
SecondHash(hval, sz) == IF sz >= 3 THEN 1 + (hval % (sz - 2)) ELSE 1 + hval

\* NextIdx wrapping only below hval2
NextIdxStrict(idx, hval2, sz) == IF idx < hval2 THEN sz + idx - hval2 ELSE idx - hval2

\* one step of the probe sequence; a negative result is the wrapped index
NextIdx(idx, hval2, sz) == IF idx <= hval2 THEN sz + idx - hval2 ELSE idx - hval2

\* safe_strcmp of rufus.h is strcmp with a NULL operand read as the literal
\* "<NULL>"; no key of Keys is that literal, so a NULL string equals no key
safe_strcmp(str1, str2) == IF str1 = str2 THEN 0 ELSE 1

\* EntryFound with the tag compared to the slot index instead of hval
EntryFoundTagIsIndex(t, idx, hval, str) ==
    (t[idx].used = idx) /\ (safe_strcmp(str, t[idx].str) = 0)

\* (htab->table[idx].used == hval) && (safe_strcmp(str, htab->table[idx].str) == 0)
EntryFound(t, idx, hval, str) ==
    (t[idx].used = hval) /\ (safe_strcmp(str, t[idx].str) = 0)

RECURSIVE Probe(_, _, _, _, _, _, _)
\* the do ... while loop, entered with idx; n counts the iterations
Probe(t, sz, hval, hval2, idx, str, n) ==
    LET next == NextIdx(idx, hval2, sz)
    IN  IF next = hval THEN [kind |-> "cycle", idx |-> next, iters |-> n + 1]
        ELSE IF next \notin DOMAIN t THEN [kind |-> "oob", idx |-> next, iters |-> n + 1]
        ELSE IF EntryFound(t, next, hval, str)
             THEN [kind |-> "found", idx |-> next, iters |-> n + 1]
        ELSE IF t[next].used # 0 THEN Probe(t, sz, hval, hval2, next, str, n + 1)
        ELSE [kind |-> "empty", idx |-> next, iters |-> n + 1]

RECURSIVE ProbeOrbit(_, _, _, _, _)
\* the indices the do ... while loop computes from idx, in order, up to the
\* one that is hval again (the break of the loop), whatever the slots hold;
\* n counts them and the sequence is cut after sz + 1 of them
ProbeOrbit(sz, hval, hval2, idx, n) ==
    LET next == NextIdx(idx, hval2, sz)
    IN  IF (next = hval) \/ (n > sz)
        THEN <<next>>
        ELSE <<next>> \o ProbeOrbit(sz, hval, hval2, next, n + 1)

\* Search without the comparison at the first index
SearchNoFirstMatch(t, sz, str) ==
    LET hval == TableHash(str, sz)
    IN  IF t[hval].used # 0
        THEN Probe(t, sz, hval, SecondHash(hval, sz), hval, str, 0)
        ELSE [kind |-> "empty", idx |-> hval, iters |-> 0]

\* the search of htab_hash: where it ends and how
Search(t, sz, str) ==
    LET hval == TableHash(str, sz)
    IN  IF t[hval].used # 0
        THEN IF EntryFound(t, hval, hval, str)
             THEN [kind |-> "found", idx |-> hval, iters |-> 0]
             ELSE Probe(t, sz, hval, SecondHash(hval, sz), hval, str, 0)
        ELSE [kind |-> "empty", idx |-> hval, iters |-> 0]

(* ------------------------------- state --------------------------------- *)

\* a slot as calloc leaves it
Entry0 == [used |-> 0, str |-> NULL]

\* htab->table == NULL
NullTable == [i \in {} |-> Entry0]

\* some slot of t holds the key str
Present(t, str) == \E i \in DOMAIN t : (t[i].used # 0) /\ (t[i].str = str)

\* a call that made no search
NoSearch == [kind |-> "none", idx |-> 0, iters |-> 0]

\* a call as last records it: live0, present0, filled0 and handle0 (the index
\* a call has returned for str before, 0 if none) are taken at entry,
\* changed tells whether the call has modified the table object, kind, idx
\* and iters are how the search of htab_hash ended, leaked is the number of
\* key copies htab_destroy left allocated
Call(op, str, nel, htabNull, ret, oom, s, leaked) ==
    [op |-> op, str |-> str, nel |-> nel, htabNull |-> htabNull, ret |-> ret, oom |-> oom,
     live0 |-> table # NullTable,
     filled0 |-> filled,
     present0 |-> (str # NULL) /\ Present(table, str),
     handle0 |-> IF str \in Keys THEN handle[str] ELSE 0,
     changed |-> <<table', size', filled'>> # <<table, size, filled>>,
     kind |-> s.kind, idx |-> s.idx, iters |-> s.iters,
     leaked |-> leaked]

NoCall == [op |-> "none", str |-> NULL, nel |-> 0, htabNull |-> FALSE, ret |-> 0,
           oom |-> FALSE, live0 |-> FALSE, filled0 |-> 0, present0 |-> FALSE, handle0 |-> 0,
           changed |-> FALSE, kind |-> "none", idx |-> 0, iters |-> 0, leaked |-> 0]

NoPair == [twice |-> FALSE, ret |-> 0, filled0 |-> 0]

NoHandle == [k \in Keys |-> 0]

\* a htab_table initialised to HTAB_EMPTY
Init ==
    /\ table = NullTable
    /\ size = 0
    /\ filled = 0
    /\ pc = "run"
    /\ nOom = 0
    /\ last = NoCall
    /\ pair = NoPair
    /\ handle = NoHandle

(* ------------------------------ htab_hash ------------------------------ *)

\* HashArgsInvalid without the test of str
HashArgsInvalidNoStr(t, str, htabNull) == htabNull \/ (t = NullTable)

\* (htab == NULL) || (htab->table == NULL) || (str == NULL)
HashArgsInvalid(t, str, htabNull) == htabNull \/ (t = NullTable) \/ (str = NULL)

\* HasRoom off by one
HasRoomInclusive(f, sz) == f <= sz

\* htab->filled < htab->size, the condition of if_not_assert before the insert
HasRoom(f, sz) == f < sz

\* the slot array after the stores to htab->table[idx]; a store through an
\* index outside the array does not land in it
StoreEntry(t, idx, hval, newstr) ==
    IF idx \in DOMAIN t
    THEN [t EXCEPT ![idx] = [used |-> hval, str |-> newstr]]
    ELSE t

\* what the call returned and left behind
Returned(str, htabNull, ret, oom, s) ==
    /\ last' = Call("hash", str, 0, htabNull, ret, oom, s, 0)
    /\ pair' = IF (last.op = "hash") /\ (last.str = str) /\ (last.htabNull = htabNull)
               THEN [twice |-> TRUE, ret |-> last.ret, filled0 |-> last.filled0]
               ELSE NoPair
    /\ handle' = IF (ret # 0) /\ (str \in Keys) THEN [handle EXCEPT ![str] = ret] ELSE handle

\* "Not found => New entry", entered with the search s that ended at s.idx;
\* the malloc of the key copy returns a block or NULL
NewEntry(str, s, hval) ==
    IF ~HasRoom(filled, size)
    THEN /\ UNCHANGED <<table, size, filled, pc, nOom>>
         /\ Returned(str, FALSE, 0, FALSE, s)
    ELSE \/ /\ table' = StoreEntry(table, s.idx, hval, str)
            /\ filled' = filled + 1
            /\ UNCHANGED <<size, pc, nOom>>
            /\ Returned(str, FALSE, s.idx, FALSE, s)
         \/ /\ nOom < MaxOom
            /\ table' = StoreEntry(table, s.idx, hval, NULL)
            /\ nOom' = nOom + 1
            /\ UNCHANGED <<size, filled, pc>>
            /\ Returned(str, FALSE, 0, TRUE, s)

\* uint32_t htab_hash(char* str, htab_table* htab).  if_not_assert is taken as
\* its if: a build with assertions enabled stops at the assert instead.  A read
\* of htab->table[idx] outside the array faults, or reads a zero tag and ends
\* the loop.
htab_hash(str, htabNull) ==
    /\ pc = "run"
    /\ IF HashArgsInvalid(table, str, htabNull)
       THEN /\ UNCHANGED <<table, size, filled, pc, nOom>>
            /\ Returned(str, htabNull, 0, FALSE, NoSearch)
       ELSE LET s == Search(table, size, str)
                hval == TableHash(str, size)
            IN  CASE s.kind = "found" ->
                       /\ UNCHANGED <<table, size, filled, pc, nOom>>
                       /\ Returned(str, FALSE, s.idx, FALSE, s)
                  [] s.kind = "oob" ->
                       \/ /\ pc' = "fault"
                          /\ UNCHANGED <<table, size, filled, nOom>>
                          /\ Returned(str, FALSE, 0, FALSE, s)
                       \/ NewEntry(str, s, hval)
                  [] OTHER -> NewEntry(str, s, hval)

(* ----------------------------- htab_create ----------------------------- *)

\* CreateArgsInvalid without the test of htab->table
CreateArgsInvalidNoTable(t, htabNull) == htabNull

\* (htab == NULL) || !(htab->table == NULL)
CreateArgsInvalid(t, htabNull) == htabNull \/ (t # NullTable)

CreateReturned(nel, htabNull, ret, oom) ==
    /\ last' = Call("create", NULL, nel, htabNull, ret, oom, NoSearch, 0)
    /\ pair' = NoPair
    /\ handle' = IF ret # 0 THEN NoHandle ELSE handle

\* BOOL htab_create(uint32_t nel, htab_table* htab), ret 1 for TRUE.  callocOk
\* is the outcome of calloc.  if_not_assert is taken as its if.
htab_create(nel, htabNull, callocOk) ==
    /\ pc = "run"
    /\ IF CreateArgsInvalid(table, htabNull)
       THEN /\ callocOk
            /\ UNCHANGED <<table, size, filled, pc, nOom>>
            /\ CreateReturned(nel, htabNull, 0, FALSE)
       ELSE /\ size' = NewSize(nel)
            /\ filled' = 0
            /\ table' = IF callocOk THEN [i \in 0..size' |-> Entry0] ELSE NullTable
            /\ nOom' = 0
            /\ UNCHANGED pc
            /\ CreateReturned(nel, FALSE, IF callocOk THEN 1 ELSE 0, ~callocOk)

(* ----------------------------- htab_destroy ---------------------------- *)

\* DestroyArgsInvalid without the test of htab->table
DestroyArgsInvalidNoTable(t, htabNull) == htabNull

\* (htab == NULL) || (htab->table == NULL)
DestroyArgsInvalid(t, htabNull) == htabNull \/ (t = NullTable)

\* Freed with the loop stopping one slot early
FreedBelowSize(t, sz) == { i \in DOMAIN t \cap (0..(sz - 1)) : t[i].used # 0 }

\* the slots whose str the loop over i < htab->size + 1 hands to safe_free
Freed(t, sz) == { i \in DOMAIN t \cap (0..sz) : t[i].used # 0 }

\* the slots whose key copy is still allocated when the slot array is freed
Leaked(t, sz) == { i \in DOMAIN t : (t[i].str # NULL) /\ (i \notin Freed(t, sz)) }

\* void htab_destroy(htab_table* htab)
htab_destroy(htabNull) ==
    /\ pc = "run"
    /\ IF DestroyArgsInvalid(table, htabNull)
       THEN /\ UNCHANGED <<table, size, filled, pc, nOom, handle>>
            /\ last' = Call("destroy", NULL, 0, htabNull, 0, FALSE, NoSearch, 0)
       ELSE /\ handle' = NoHandle
            /\ table' = NullTable
            /\ filled' = 0
            /\ size' = 0
            /\ nOom' = 0
            /\ UNCHANGED pc
            /\ last' = Call("destroy", NULL, 0, htabNull, 0, FALSE, NoSearch,
                            Cardinality(Leaked(table, size)))
    /\ pair' = IF (last.op = "destroy") /\ (last.htabNull = htabNull)
               THEN [twice |-> TRUE, ret |-> 0, filled0 |-> last.filled0]
               ELSE NoPair

(* --------------------------- specifications ---------------------------- *)

Hash == \E str \in Keys \cup {NULL} : htab_hash(str, FALSE)

\* htab_hash(str, NULL): the call returns before it reads str
HashNoTable == \E str \in {NULL, <<>>} : htab_hash(str, TRUE)

Create == \E nel \in 1..MaxNel, callocOk \in BOOLEAN : htab_create(nel, FALSE, callocOk)

\* htab_create(nel, NULL): the call returns before it reads nel
CreateNoTable == htab_create(MaxNel, TRUE, TRUE)

Destroy == \E htabNull \in BOOLEAN : htab_destroy(htabNull)

Next == Hash \/ HashNoTable \/ Create \/ CreateNoTable \/ Destroy

Spec == Init /\ [][Next]_vars

\* the same table, created with a wider range of requested sizes and not filled
CreateAny == \E nel \in (0..MaxReq) \cup WideReq, callocOk \in BOOLEAN : htab_create(nel, FALSE, callocOk)

NextCreate == CreateAny \/ Destroy

SpecCreate == Init /\ [][NextCreate]_vars

(* ------------------------------ properties ----------------------------- *)

\* the slot array is allocated
Live == table # NullTable

\* the last call was htab_hash with a table and a key
HashCall == (last.op = "hash") /\ ~last.htabNull /\ (last.str # NULL)

\* n is a prime number
IsPrime(n) == (n > 1) /\ (\A d \in 2..(n - 1) : n % d # 0)

\* the smallest odd prime that is at least n
SmallestOddPrime(n) ==
    CHOOSE p \in n..(2 * n + 3) :
        /\ IsPrime(p) /\ (p % 2 = 1)
        /\ \A q \in n..(p - 1) : ~(IsPrime(q) /\ (q % 2 = 1))

\* what two calls of htab_hash in a row with the same key agree on
SamePair ==
    /\ pc = "run"
    /\ last.ret = pair.ret
    /\ filled = last.filled0
    /\ filled <= pair.filled0 + 1

C2_Distinctness ==
    \A s1 \in Keys, s2 \in Keys :
        ((s1 # s2) /\ (handle[s1] # 0) /\ (handle[s2] # 0)) => (handle[s1] # handle[s2])

\* the last call was htab_hash on a live table with a key that was not in it
InsertCall == HashCall /\ Live /\ ~last.present0

\* such a call has stored the key and returned its index when filled < size,
\* and has returned 0 and stored nothing when filled = size
InsertDone ==
    IF last.filled0 < size
    THEN /\ pc = "run"
         /\ last.ret \in 1..size
         /\ filled = last.filled0 + 1
         /\ table[last.ret].str = last.str
    ELSE /\ pc = "run"
         /\ last.ret = 0
         /\ ~last.changed

C4_HandleValidity ==
    /\ (HashCall /\ Live /\ (last.ret = 0)) => (filled = last.filled0)
    /\ \A k \in Keys :
          (Live /\ (handle[k] # 0)) =>
              /\ handle[k] \in 1..size
              /\ table[handle[k]].used # 0
              /\ table[handle[k]].str = k

\* the last call was a htab_create that succeeded, for a size of 1..MaxReq (the
\* sizes of WideReq are held as negative Integers)
Created == (last.op = "create") /\ (last.ret = 1) /\ (last.nel >= 1)

\* C5: htab_create(n) for n >= 1 makes a table whose capacity is an odd prime,
\* at least n and at least 3.
C5_Primality ==
    Created => (IsPrime(size) /\ (size % 2 = 1) /\ (size >= last.nel) /\ (size >= 3))

\* C6: htab_create(n) sets capacity to the smallest odd prime that is at least
\* n | 1, and filled to 0.
C6_SmallestPrime ==
    Created => ((size = SmallestOddPrime(OrOne(last.nel))) /\ (filled = 0))

\* C7: with filled = capacity, htab_hash of a key that is not in the table
\* returns 0 and leaves every slot and filled as they were.
C7_TableFull ==
    (InsertCall /\ (last.filled0 = size)) =>
        ((pc = "run") /\ (last.ret = 0) /\ ~last.changed)

\* C8: when the duplication of the key fails, htab_hash returns 0 and the
\* table is as it was before the call: no slot has changed, and neither has filled.
C8_InsertOom ==
    ((last.op = "hash") /\ last.oom) => ((last.ret = 0) /\ ~last.changed)

\* C9: when calloc fails, htab_create returns FALSE and the handle is as it
\* was before the call: no slot array, capacity and filled as before.
C9_CreateOom ==
    ((last.op = "create") /\ last.oom) => ((last.ret = 0) /\ ~Live /\ ~last.changed)

\* C10: htab_hash with a NULL key, a NULL table or a table without slot array
\* returns 0 and changes nothing.
C10_NullSafety ==
    ((last.op = "hash") /\ (last.htabNull \/ (last.str = NULL) \/ ~Live)) =>
        ((last.ret = 0) /\ ~last.changed /\ (pc = "run"))

\* htab_hash has returned 0 for a NULL key on a full table
C10_Witness ==
    /\ (last.op = "hash") /\ ~last.htabNull /\ (last.str = NULL)
    /\ Live /\ (filled = size) /\ (size = 5)
    /\ last.ret = 0

\* the last call was htab_create or htab_destroy on a table whose slot array
\* was allocated at entry
OnLive(op) == (last.op = op) /\ ~last.htabNull /\ last.live0

\* C11: htab_create on a live table returns FALSE and leaves the slot array,
\* with every key and tag in it, the capacity and filled as they were.
C11_CreateOnLive ==
    OnLive("create") =>
        ((pc = "run") /\ (last.ret = 0) /\ ~last.changed /\ Live /\ (filled = last.filled0))

\* htab_create has just returned FALSE on a live table that holds keys
C11_Witness ==
    /\ OnLive("create") /\ (last.ret = 0)
    /\ Live /\ (filled > 0)
    /\ \E k \in Keys : Present(table, k)

\* the last call was htab_destroy on no table, or on a table without a slot
\* array: never created, destroyed, or left so by a failed htab_create
DestroyOnNothing == (last.op = "destroy") /\ (last.htabNull \/ ~last.live0)

\* C12: htab_destroy on a null table, or on one that was never created or is
\* already destroyed, changes nothing; a second htab_destroy in a row leaves
\* the state the first one left.
C12_DestroyIdempotent ==
    /\ DestroyOnNothing => ((pc = "run") /\ ~last.changed /\ (last.leaked = 0))
    /\ ((last.op = "destroy") /\ pair.twice) => ~last.changed

\* htab_destroy has just run for the second time in a row on a table that once
\* was live
C12_Witness ==
    /\ DestroyOnNothing /\ ~last.htabNull
    /\ pair.twice
    /\ ~Live /\ (size = 0) /\ (filled = 0)

\* a slot array as calloc returns it, with sz + 1 slots
EmptyTable(sz) == [i \in 0..sz |-> Entry0]

\* C13: htab_destroy on a live table frees the key copy of every slot and the
\* slot array and sets capacity and filled to 0; from a table without a slot
\* array htab_create succeeds, if calloc does, with filled = 0 and no key in
\* any slot.
C13_DestroyThenCreate ==
    /\ OnLive("destroy") =>
          /\ pc = "run"
          /\ last.leaked = 0
          /\ table = NullTable
          /\ size = 0
          /\ filled = 0
    /\ ((last.op = "create") /\ ~last.htabNull /\ ~last.live0 /\ ~last.oom) =>
          /\ last.ret = 1
          /\ filled = 0
          /\ table = EmptyTable(size)
          /\ \A k \in Keys : ~Present(table, k)

\* htab_destroy has just released a table that held at least two keys
C13_Witness ==
    /\ OnLive("destroy")
    /\ last.filled0 > 1
    /\ last.changed
    /\ table = NullTable

\* the probe sequence of hval on a table of capacity sz
OrbitOf(sz, hval) == ProbeOrbit(sz, hval, SecondHash(hval, sz), hval, 1)

\* C14: for every capacity htab_create makes and every first index hval in
\* 1..capacity - 1, the probe sequence that starts at hval takes capacity
\* steps to come back to hval and is at every slot of 1..capacity exactly
\* once on the way: the loop breaks at hval only after it has been at every
\* slot.
C14_ProbeCoverage ==
    Live =>
        \A hval \in 1..(size - 1) :
            LET o == OrbitOf(size, hval)
            IN  /\ Len(o) = size
                /\ o[Len(o)] = hval
                /\ { o[i] : i \in 1..Len(o) } = 1..size

\* a table of capacity 11, where the sequence of hval = 3 steps by 4 and wraps
\* three times
C14_Witness ==
    /\ Live /\ (size = 11) /\ (last.op = "create")
    /\ OrbitOf(size, 3) = <<10, 6, 2, 9, 5, 1, 8, 4, 11, 7, 3>>

\* the last call was htab_hash with a key on a table that was live at entry
HashOnLive == HashCall /\ last.live0

\* C15: every call of htab_hash on a live table returns, after at most
\* capacity iterations of the probe loop.
C15_Termination == HashOnLive => ((pc = "run") /\ (last.iters <= size))

\* the last call was htab_hash on a live table with a key that some slot held
LookupCall == HashOnLive /\ last.present0

\* C16: htab_hash of a key that is in the table returns the index of the slot
\* that holds it and changes no slot, nor filled, nor the capacity.
C16_LookupPure ==
    LookupCall =>
        /\ pc = "run"
        /\ ~last.changed
        /\ filled = last.filled0
        /\ last.ret \in DOMAIN table
        /\ table[last.ret].used # 0
        /\ table[last.ret].str = last.str

\* a full table of capacity 5 has just returned the index of a key that is
\* not in its first slot but further along its probe sequence
C16_Witness ==
    /\ LookupCall
    /\ (size = 5) /\ (filled = size)
    /\ last.ret # TableHash(last.str, size)
    /\ last.iters > 1
    /\ table[last.ret].str = last.str

\* C17: in a live table the tag of a slot is non-zero exactly when the slot
\* holds a copy of a key.
C17_TagIffKey ==
    Live => \A i \in DOMAIN table : (table[i].used # 0) <=> (table[i].str # NULL)

\* C18: the first index of every key is in 1..capacity, the search of
\* htab_hash ends at an index in 1..capacity, and slot 0 is never tagged.
C18_SlotZeroUnused ==
    /\ Live => /\ \A k \in Keys : TableHash(k, size) \in 1..size
               /\ table[0].used = 0
    /\ (HashOnLive /\ (last.kind # "none")) => (last.idx \in 1..size)

\* C19: a call of htab_hash that writes to the table writes to a slot whose
\* tag was zero when the search ended at it.
C19_NoOverwrite == (HashOnLive /\ last.changed) => (last.kind = "empty")

\* the slots of t with a non-zero tag
Tagged(t) == { i \in DOMAIN t : t[i].used # 0 }

\* C20: in a live table filled is the number of slots with a non-zero tag.
C20_FilledCount == Live => (filled = Cardinality(Tagged(table)))

\* C21: once htab_hash has returned a non-zero index for a key, every later
\* htab_hash of that key on the same slot array, whatever calls for other
\* keys came in between, returns that index and stores nothing.
C21_Findability ==
    (HashOnLive /\ (last.handle0 # 0)) =>
        ((pc = "run") /\ (last.ret = last.handle0) /\ ~last.changed)

\* C22: the prime search of htab_create does not wrap: for every requested
\* size n of 0..2^32 - 1 the capacity of the table it makes is, as a
\* uint32_t, at least n.
C22_NoWrap ==
    ((last.op = "create") /\ (last.ret = 1)) =>
        ~Less32(ToLimbs(size), ToLimbs(last.nel))

====
